---- MODULE Spec2Model ----
(***************************************************************************)
(* pico_ws2812: ws::Strip, a WS2812 / SK6812 LED strip driver for the      *)
(* RP2040 (PIO state machine fed by the CPU or by a DMA channel).          *)
(*                                                                         *)
(* The model has three parts that run concurrently:                        *)
(*   - the CPU, executing one Strip member function at a time (pc),        *)
(*   - the DMA channels, copying words from memory into a TX FIFO,         *)
(*   - the PIO state machines, pulling words from the FIFO and shifting    *)
(*     them out on the wire.                                               *)
(* Time is discrete: one Tick is 10 microseconds.  At the default 800 kHz  *)
(* one bit lasts 1.25 us, so a 24-bit word lasts 3 ticks and a 32-bit word *)
(* 4 ticks; sleep_us(80) lasts 8 ticks.  DMA copies and FIFO pulls take    *)
(* well under a tick and are therefore taken before time advances.         *)
(***************************************************************************)
EXTENDS Integers, Sequences, FiniteSets, TLC

\* ---------------------------------------------------------------- scope
\* Largest pixel count given to the constructor.
MaxCount == 4
\* Largest pixel count of a strip the caller paints.
MaxPainted == 3
\* Depth of a state machine's TX FIFO in words.
FifoDepth == 1
\* State machines per PIO block.
NSm == 2
\* sleep_us(80), in ticks of 10 us.
LatchTicks == 8

Strips == {"a", "b"}
Blocks == {0, 1}              \* pio0, pio1
SMs == 0 .. (NSm - 1)
Chans == {0}                  \* DMA channels left to this program
Owners == {"free", "app"} \cup Strips

\* ---------------------------------------------------------------- colours
Byte == 0 .. 255

RGB(r, g, b) == [r |-> r, g |-> g, b |-> b]
RGBW(r, g, b, w) == [r |-> r, g |-> g, b |-> b, w |-> w]

Black == RGBW(0, 0, 0, 0)
\* Colours the caller paints with.
PaintRGB == {RGB(255, 0, 0)}
PaintRGBW == {RGBW(16, 32, 48, 64)}
Brightnesses == {255, 128}

\* The table enableGamma(true) computes: round(pow(i/255, 2.2) * 255).
GammaCurve ==
  << 0, 0, 0, 0, 0, 0, 0, 0, 0, 0, 0, 0, 0, 0, 0, 1,
     1, 1, 1, 1, 1, 1, 1, 1, 1, 2, 2, 2, 2, 2, 2, 2,
     3, 3, 3, 3, 3, 4, 4, 4, 4, 5, 5, 5, 5, 6, 6, 6,
     6, 7, 7, 7, 8, 8, 8, 9, 9, 9, 10, 10, 11, 11, 11, 12,
     12, 13, 13, 13, 14, 14, 15, 15, 16, 16, 17, 17, 18, 18, 19, 19,
     20, 20, 21, 22, 22, 23, 23, 24, 25, 25, 26, 26, 27, 28, 28, 29,
     30, 30, 31, 32, 33, 33, 34, 35, 35, 36, 37, 38, 39, 39, 40, 41,
     42, 43, 43, 44, 45, 46, 47, 48, 49, 49, 50, 51, 52, 53, 54, 55,
     56, 57, 58, 59, 60, 61, 62, 63, 64, 65, 66, 67, 68, 69, 70, 71,
     73, 74, 75, 76, 77, 78, 79, 81, 82, 83, 84, 85, 87, 88, 89, 90,
     91, 93, 94, 95, 97, 98, 99, 100, 102, 103, 105, 106, 107, 109, 110, 111,
     113, 114, 116, 117, 119, 120, 121, 123, 124, 126, 127, 129, 130, 132, 133, 135,
     137, 138, 140, 141, 143, 145, 146, 148, 149, 151, 153, 154, 156, 158, 159, 161,
     163, 165, 166, 168, 170, 172, 173, 175, 177, 179, 181, 182, 184, 186, 188, 190,
     192, 194, 196, 197, 199, 201, 203, 205, 207, 209, 211, 213, 215, 217, 219, 221,
     223, 225, 227, 229, 231, 234, 236, 238, 240, 242, 244, 246, 248, 251, 253, 255 >>

\* _gam is one of two tables; the model stores which one.
GamTables == {"identity", "curve"}
GamLookup(table, i) == IF table = "curve" THEN GammaCurve[i + 1] ELSE i
\* Mutant: the division by 255 is replaced by a shift by 8.
scale_u8_shift(v, b) == ((v * b + 127) \div 256) % 256

\* Mutant: the product is formed in 8 bits.
scale_u8_narrow(v, b) == ((((v * b) % 256) + 127) \div 255) % 256

\* scale_u8: (v*b + 127) / 255, truncated to 8 bits.
scale_u8(v, b) == ((v * b + 127) \div 255) % 256

\* A 32-bit word is kept as <<high half, low half>>, 16 bits each.
Word(hi, lo) == <<hi % 65536, lo % 65536>>
Garbage == {Word(57005, 48879)}

VARIABLES
  \* the caller's habit
  patient,
  \* constructor arguments and members of each Strip
  constructed, _pio, _count, _rgbw, _sm, _dma_ch, _pio_offset,
  _buf, _brightness, _gamma_on, _gam,
  \* file-scope statics
  s_offset,
  \* PIO hardware
  instrFree, smClaim, smEnabled, smBits, txf, osrLeft, idleTicks,
  \* DMA hardware
  dmaClaim, dmaBusy, dmaLeft, dmaSrc, dmaLive, dmaDst,
  \* CPU
  pc, cur, frame, pushIdx, sleepLeft, lastOp, ret,
  \* history
  ready, rebegun, released, loads, txCount, txMatch

\* fixed at construction
config == <<constructed, patient, _pio, _count, _rgbw>>
stripVars == <<config, _sm, _dma_ch, _pio_offset,
               _buf, _brightness, _gamma_on, _gam, s_offset>>
pioVars == <<instrFree, smClaim, smEnabled, smBits, txf, osrLeft, idleTicks>>
dmaVars == <<dmaClaim, dmaBusy, dmaLeft, dmaSrc, dmaLive, dmaDst>>
cpuVars == <<pc, cur, frame, pushIdx, sleepLeft, lastOp, ret>>
histVars == <<ready, rebegun, released, loads, txCount, txMatch>>
vars == <<stripVars, pioVars, dmaVars, cpuVars, histVars>>

\* ---------------------------------------------------------------- encoder
\* One pixel through the colour pipeline and the packing of build_frame.
Chan(s, v) == scale_u8(IF _gamma_on[s] THEN GamLookup(_gam[s], v) ELSE v,
                       _brightness[s])
\* Mutant: the 24-bit word is written without the shift to the top.
EncodePixelUnshifted(s, p) ==
  LET r == Chan(s, p.r)
      g == Chan(s, p.g)
      b == Chan(s, p.b)
  IN  IF _rgbw[s]
        THEN Word(g * 256 + r, b * 256 + Chan(s, p.w))
        ELSE LET grb == g * 65536 + r * 256 + b
             IN  Word(grb \div 65536, grb % 65536)

\* Mutant: the 32-bit word is packed in the order of the struct, RGBW.
EncodePixelStructOrder(s, p) ==
  LET r == Chan(s, p.r)
      g == Chan(s, p.g)
      b == Chan(s, p.b)
  IN  IF _rgbw[s]
        THEN Word(r * 256 + g, b * 256 + Chan(s, p.w))
        ELSE LET grb == g * 65536 + r * 256 + b
             IN  Word(grb \div 256, (grb % 256) * 256)

EncodePixel(s, p) ==
  LET r == Chan(s, p.r)
      g == Chan(s, p.g)
      b == Chan(s, p.b)
  IN  IF _rgbw[s]
        THEN \* (g<<24) | (r<<16) | (b<<8) | w
             Word(g * 256 + r, b * 256 + Chan(s, p.w))
        ELSE \* grb = (g<<16) | (r<<8) | b ; out = grb << 8
             LET grb == g * 65536 + r * 256 + b
             IN  Word(grb \div 256, (grb % 256) * 256)
\* Mutant: the frame is built back to front.
build_frame_reversed(s) ==
  [i \in 1 .. _count[s] |-> EncodePixel(s, _buf[s][_count[s] + 1 - i])]

build_frame(s) == [i \in 1 .. _count[s] |-> EncodePixel(s, _buf[s][i])]


\* ---------------------------------------------------------------- helpers
SmIds == Blocks \X SMs
Min(S) == CHOOSE x \in S : \A y \in S : x <= y
PANIC == 0 - 2                 \* the SDK call does not return: panic()

\* No transfer is under way: no channel is busy, every state machine has
\* shifted out all it was given and its line has been idle for the reset
\* latch since.
Quiet ==
  /\ \A c \in Chans : ~dmaBusy[c]
  /\ \A x \in SmIds : txf[x] = <<>> /\ osrLeft[x] = 0 /\ idleTicks[x] = LatchTicks

\* The caller is free to make a call on strip s.  A patient caller makes
\* its next call only once the wire has gone quiet.
MayCall(s) ==
  /\ pc = "idle"
  /\ s \in constructed
  /\ patient => Quiet

\* The state machine of strip s.
SmOf(s) == <<_pio[s], _sm[s]>>

\* The call has returned to the caller, which has not acted yet.
Return(s, op, r) ==
  /\ pc' = "returned"
  /\ lastOp' = op
  /\ ret' = r
  /\ cur' = s
  /\ frame' = <<>>
  /\ pushIdx' = 0
  /\ sleepLeft' = 0

\* ---------------------------------------------------------------- construction
\* Everything that does not depend on the scenario.
InitCommon ==
  /\ _dma_ch = [s \in Strips |-> 0 - 1]
  /\ _pio_offset = [s \in Strips |-> 0]
  /\ _buf = [s \in Strips |-> [i \in 1 .. _count[s] |-> Black]]
  /\ _brightness = [s \in Strips |-> 255]
  /\ _gamma_on = [s \in Strips |-> FALSE]
  /\ _gam = [s \in Strips |-> "identity"]
  /\ s_offset = [b \in Blocks |-> 0 - 1]
  /\ smEnabled = [x \in SmIds |-> FALSE]
  /\ smBits = [x \in SmIds |-> 32]
  /\ txf = [x \in SmIds |-> <<>>]
  /\ osrLeft = [x \in SmIds |-> 0]
  /\ idleTicks = [x \in SmIds |-> LatchTicks]
  /\ dmaBusy = [c \in Chans |-> FALSE]
  /\ dmaLeft = [c \in Chans |-> 0]
  /\ dmaSrc = [c \in Chans |-> <<>>]
  /\ dmaLive = [c \in Chans |-> TRUE]
  /\ dmaDst = [c \in Chans |-> <<0, 0>>]
  /\ pc = "idle"
  /\ cur = "a"
  /\ frame = <<>>
  /\ pushIdx = 0
  /\ sleepLeft = 0
  /\ lastOp = "none"
  /\ ret = FALSE
  /\ ready = [s \in Strips |-> FALSE]
  /\ rebegun = [s \in Strips |-> FALSE]
  /\ released = {}
  /\ loads = [b \in Blocks |-> 0]
  /\ txCount = [s \in Strips |-> 0]
  /\ txMatch = [s \in Strips |-> TRUE]

\* One strip on pio0 with an auto-claimed state machine; the PIO block is
\* otherwise unused, and the application holds either no DMA channel or all.
OneStrip(counts, widths, waits) ==
  /\ constructed = {"a"}
  /\ patient = waits
  /\ _pio = [s \in Strips |-> 0]
  /\ \E n \in counts : _count = [s \in Strips |-> IF s = "a" THEN n ELSE 0]
  /\ \E w \in widths : _rgbw = [s \in Strips |-> w]
  /\ _sm = [s \in Strips |-> 0 - 1]
  /\ instrFree = [b \in Blocks |-> 2]
  /\ smClaim = [x \in SmIds |-> "free"]
  /\ \E o \in {"free", "app"} : dmaClaim = [c \in Chans |-> o]
  /\ InitCommon

\* ---------------------------------------------------------------- Pico SDK
\* pio_add_program: the offset the program is loaded at; panics when the
\* instruction memory has no room for it.
pio_add_program(b) == IF instrFree[b] > 0 THEN instrFree[b] - 1 ELSE PANIC

\* pio_claim_unused_sm(pio, required): the lowest unclaimed state machine;
\* with none unclaimed it panics if required, and returns -1 otherwise.
pio_claim_unused_sm(b, required) ==
  LET free == {k \in SMs : smClaim[<<b, k>>] = "free"}
  IN  IF free # {} THEN Min(free) ELSE IF required THEN PANIC ELSE 0 - 1

\* dma_claim_unused_channel(required), same contract.
dma_claim_unused_channel(required) ==
  LET free == {c \in Chans : dmaClaim[c] = "free"}
  IN  IF free # {} THEN Min(free) ELSE IF required THEN PANIC ELSE 0 - 1

\* dma_channel_is_busy
dma_channel_is_busy(c) == dmaBusy[c]

\* ---------------------------------------------------------------- begin / end
\* ws2812_program_init (ws2812.pio.h): configure the state machine for the
\* pin, bit rate and word width; pio_sm_init clears the FIFO and restarts the
\* state machine, which is then enabled.
ws2812_program_init(x, rgbw) ==
  /\ smEnabled' = [smEnabled EXCEPT ![x] = TRUE]
  /\ smBits' = [smBits EXCEPT ![x] = IF rgbw THEN 32 ELSE 24]
  /\ txf' = [txf EXCEPT ![x] = <<>>]
  /\ osrLeft' = [osrLeft EXCEPT ![x] = 0]
  /\ idleTicks' = [idleTicks EXCEPT ![x] = IF osrLeft[x] > 0 THEN 0 ELSE @]
\* Mutant: begin() loads the program on every call.
NeedsLoadAlways(b) == TRUE

\* "Add PIO program once per PIO block": is a load needed?
NeedsLoad(b) == s_offset[b] < 0
\* Mutant: begin() does not clear the pixel buffer.
Uncleared(s) == _buf[s]

\* clear(): setAll(RGBW{0,0,0,0})
Cleared(s) == [i \in 1 .. _count[s] |-> Black]

Halt(s) ==
  /\ pc' = "panic"
  /\ lastOp' = "begin"
  /\ cur' = s
  /\ UNCHANGED <<frame, pushIdx, sleepLeft, ret>>

Begin(s) ==
  /\ MayCall(s)
  /\ LET b == _pio[s]
         off == IF NeedsLoad(b) THEN pio_add_program(b) ELSE s_offset[b]
         sm == IF _sm[s] < 0 THEN pio_claim_unused_sm(b, TRUE) ELSE _sm[s]
         ch == dma_claim_unused_channel(FALSE)
     IN  IF off = PANIC
           THEN \* pio_add_program did not return
                /\ Halt(s)
                /\ UNCHANGED <<stripVars, pioVars, dmaVars, histVars>>
           ELSE
             /\ s_offset' = [s_offset EXCEPT ![b] = off]
             /\ _pio_offset' = [_pio_offset EXCEPT ![s] = off]
             /\ instrFree' = [instrFree EXCEPT
                                ![b] = IF NeedsLoad(b) THEN @ - 1 ELSE @]
             /\ loads' = [loads EXCEPT
                            ![b] = IF NeedsLoad(b) /\ @ < 2 THEN @ + 1 ELSE @]
             /\ UNCHANGED <<config, _brightness,
                            _gamma_on, _gam, txCount, txMatch>>
             /\ IF sm = PANIC
                  THEN \* pio_claim_unused_sm did not return
                       /\ Halt(s)
                       /\ UNCHANGED <<_sm, _dma_ch, _buf, smClaim, smEnabled,
                                      smBits, txf, osrLeft, idleTicks,
                                      dmaVars, ready, rebegun, released>>
                  ELSE IF sm < 0
                  THEN \* if (_sm < 0) return false;
                       /\ Return(s, "begin", FALSE)
                       /\ _sm' = [_sm EXCEPT ![s] = sm]
                       /\ UNCHANGED <<_dma_ch, _buf, smClaim, smEnabled,
                                      smBits, txf, osrLeft, idleTicks,
                                      dmaVars, ready, rebegun, released>>
                  ELSE
                    /\ _sm' = [_sm EXCEPT ![s] = sm]
                    /\ smClaim' = [smClaim EXCEPT
                                     ![<<b, sm>>] = IF _sm[s] < 0 THEN s ELSE @]
                    /\ ws2812_program_init(<<b, sm>>, _rgbw[s])
                    /\ _dma_ch' = [_dma_ch EXCEPT ![s] = ch]
                    /\ IF ch >= 0
                         THEN /\ dmaClaim' = [dmaClaim EXCEPT ![ch] = s]
                              /\ dmaDst' = [dmaDst EXCEPT ![ch] = <<b, sm>>]
                              /\ dmaSrc' = [dmaSrc EXCEPT ![ch] = <<>>]
                              /\ dmaLeft' = [dmaLeft EXCEPT ![ch] = 0]
                              /\ dmaLive' = [dmaLive EXCEPT ![ch] = TRUE]
                              /\ UNCHANGED dmaBusy
                         ELSE UNCHANGED dmaVars
                    /\ _buf' = [_buf EXCEPT ![s] = Cleared(s)]
                    /\ ready' = [ready EXCEPT ![s] = TRUE]
                    /\ rebegun' = [rebegun EXCEPT ![s] = @ \/ ready[s]]
                    /\ released' = {}
                    /\ Return(s, "begin", TRUE)
\* Mutant: stop_dma() does not abort the channel.
stop_dma_nothing(s) == dmaBusy

\* stop_dma(): dma_channel_abort on the strip's channel, if it has one.
stop_dma(s) ==
  IF _dma_ch[s] >= 0 THEN [dmaBusy EXCEPT ![_dma_ch[s]] = FALSE] ELSE dmaBusy

\* "stop_dma(); if (_dma_ch >= 0) { dma_channel_unclaim(_dma_ch); _dma_ch = -1; }"
EndDma(s) ==
  LET ch == _dma_ch[s]
  IN  /\ dmaBusy' = stop_dma(s)
      /\ IF ch >= 0
           THEN /\ dmaClaim' = [dmaClaim EXCEPT ![ch] = "free"]
                /\ dmaLeft' = [dmaLeft EXCEPT
                                 ![ch] = IF dmaBusy'[ch] THEN @ ELSE 0]
                /\ _dma_ch' = [_dma_ch EXCEPT ![s] = 0 - 1]
           ELSE UNCHANGED <<dmaClaim, dmaLeft, _dma_ch>>
\* Mutant: end() releases the state machine but keeps its index.
EndSmKeepsIndex(s) ==
  IF _sm[s] >= 0
    THEN /\ smEnabled' = [smEnabled EXCEPT ![SmOf(s)] = FALSE]
         /\ smClaim' = [smClaim EXCEPT ![SmOf(s)] = "free"]
         /\ UNCHANGED _sm
    ELSE UNCHANGED <<smEnabled, smClaim, _sm>>

\* "if (_sm >= 0) { pio_sm_set_enabled(false); pio_sm_unclaim(); _sm = -1; }"
EndSm(s) ==
  IF _sm[s] >= 0
    THEN /\ smEnabled' = [smEnabled EXCEPT ![SmOf(s)] = FALSE]
         /\ smClaim' = [smClaim EXCEPT ![SmOf(s)] = "free"]
         /\ _sm' = [_sm EXCEPT ![s] = 0 - 1]
    ELSE UNCHANGED <<smEnabled, smClaim, _sm>>

\* end(), from the call to the return.
EndBody(s) ==
  /\ EndDma(s)
  /\ EndSm(s)
  /\ released' = {r \in {"channel", "slot"} :
                     \/ r = "channel" /\ _dma_ch[s] >= 0
                     \/ r = "slot" /\ _sm[s] >= 0}
  /\ ready' = [ready EXCEPT ![s] = FALSE]
  /\ Return(s, "end", FALSE)
  /\ UNCHANGED <<config, _pio_offset, _buf, _brightness, _gamma_on, _gam,
                 s_offset, instrFree, smBits, txf, osrLeft, idleTicks,
                 dmaSrc, dmaLive, dmaDst, rebegun, loads, txCount, txMatch>>

End(s) == MayCall(s) /\ EndBody(s)

\* The caller goes on after a call has returned.
Resume ==
  /\ pc = "returned"
  /\ pc' = "idle"
  /\ lastOp' = "none"
  /\ ret' = FALSE
  /\ released' = {}
  /\ UNCHANGED <<cur, frame, pushIdx, sleepLeft>>
  /\ UNCHANGED <<stripVars, pioVars, dmaVars, ready, rebegun, loads, txCount, txMatch>>

\* ---------------------------------------------------------------- pixel buffer
PaintFrame == <<config, _sm, _dma_ch, _pio_offset,
                s_offset>>

\* setAll(RGBW c): std::fill
Filled(s, c) == [i \in 1 .. _count[s] |-> c]
\* Mutant: an index past the end is clamped to the last slot.
WithPixelClamped(s, i, c) ==
  IF i >= _count[s]
    THEN IF _count[s] > 0 THEN [_buf[s] EXCEPT ![_count[s]] = c] ELSE _buf[s]
    ELSE [_buf[s] EXCEPT ![i + 1] = c]

\* setPixel(i, RGBW c): "if (i >= _count) return;" then _buf[i] = c.
\* The code's index i is slot i + 1 here.
WithPixel(s, i, c) == IF i >= _count[s] THEN _buf[s] ELSE [_buf[s] EXCEPT ![i + 1] = c]

Painted(s, op, buf) ==
  /\ MayCall(s)
  /\ _buf' = [_buf EXCEPT ![s] = buf]
  /\ Return(s, op, FALSE)
  /\ UNCHANGED <<PaintFrame, _brightness, _gamma_on, _gam>>
  /\ UNCHANGED <<pioVars, dmaVars, histVars>>

Clear(s) == Painted(s, "clear", Filled(s, RGBW(0, 0, 0, 0)))

SetAllRGB(s) ==
  \E c \in PaintRGB : Painted(s, "setAll", Filled(s, RGBW(c.r, c.g, c.b, 0)))

SetAllRGBW(s) ==
  \E c \in PaintRGBW : Painted(s, "setAll", Filled(s, c))

SetPixelRGB(s) ==
  \E i \in 0 .. (_count[s] + 1), c \in PaintRGB :
    Painted(s, "setPixel", WithPixel(s, i, RGBW(c.r, c.g, c.b, 0)))

SetPixelBytes(s) ==
  \E i \in 0 .. (_count[s] + 1), c \in PaintRGB :
    Painted(s, "setPixel", WithPixel(s, i, RGBW(c.r, c.g, c.b, 0)))

\* setPixel(i, RGBW c) with c taken from a given set of colours.
SetPixelRGBWFrom(s, colours) ==
  \E i \in 0 .. (_count[s] + 1), c \in colours :
    Painted(s, "setPixel", WithPixel(s, i, c))

SetPixelRGBW(s) == SetPixelRGBWFrom(s, PaintRGBW)
\* Mutant: setBrightness() scales the stored pixels in place.
SetBrightnessInPlace(s, levels) ==
  /\ MayCall(s)
  /\ \E b \in levels :
       /\ _brightness' = [_brightness EXCEPT ![s] = b]
       /\ _buf' = [_buf EXCEPT ![s] =
                     [i \in 1 .. _count[s] |->
                        RGBW(scale_u8(_buf[s][i].r, b), scale_u8(_buf[s][i].g, b),
                             scale_u8(_buf[s][i].b, b), scale_u8(_buf[s][i].w, b))]]
  /\ Return(s, "setBrightness", FALSE)
  /\ UNCHANGED <<PaintFrame, _gamma_on, _gam>>
  /\ UNCHANGED <<pioVars, dmaVars, histVars>>

\* ---------------------------------------------------------------- colour pipeline
\* setBrightness(b) with b taken from a given set of levels.
SetBrightnessFrom(s, levels) ==
  /\ MayCall(s)
  /\ \E b \in levels : _brightness' = [_brightness EXCEPT ![s] = b]
  /\ Return(s, "setBrightness", FALSE)
  /\ UNCHANGED <<PaintFrame, _buf, _gamma_on, _gam>>
  /\ UNCHANGED <<pioVars, dmaVars, histVars>>

SetBrightness(s) == SetBrightnessFrom(s, Brightnesses)

EnableGamma(s) ==
  /\ MayCall(s)
  /\ \E on \in BOOLEAN :
       /\ _gamma_on' = [_gamma_on EXCEPT ![s] = on]
       /\ _gam' = [_gam EXCEPT ![s] = IF on THEN "curve" ELSE "identity"]
  /\ Return(s, "enableGamma", FALSE)
  /\ UNCHANGED <<PaintFrame, _buf, _brightness>>
  /\ UNCHANGED <<pioVars, dmaVars, histVars>>

\* ---------------------------------------------------------------- transmission
TxFrame == <<config, _sm, _dma_ch, _pio_offset,
             _buf, _brightness, _gamma_on, _gam, s_offset>>
\* Mutant: the fallback loop pushes the first word every time.
FallbackWordFirst(data, i) == data[1]

\* The word the blocking fallback loop pushes in iteration i (1-based):
\* "for (i = 0; i < words; ++i) pio_sm_put_blocking(_pio, _sm, data[i])".
FallbackWord(data, i) == data[i]

\* start_dma(data, words).  Without a channel the caller continues in the
\* blocking push loop (pcPush).  With one, the read address and the transfer
\* count are written and the channel is triggered (pcDma).  A trigger of a
\* channel that is still busy either restarts the count or is ignored.
start_dma(s, data, pcPush, pcDma) ==
  LET ch == _dma_ch[s]
  IN  IF ch < 0
        THEN /\ pc' = pcPush
             /\ pushIdx' = 1
             /\ UNCHANGED dmaVars
        ELSE /\ pc' = pcDma
             /\ pushIdx' = 0
             /\ dmaSrc' = [dmaSrc EXCEPT ![ch] = data]
             /\ dmaLive' = [dmaLive EXCEPT ![ch] = TRUE]
             /\ \E restart \in (IF dmaBusy[ch] THEN BOOLEAN ELSE {TRUE}) :
                  dmaLeft' = [dmaLeft EXCEPT
                                ![ch] = IF restart THEN Len(data) ELSE @]
             /\ dmaBusy' = [dmaBusy EXCEPT ![ch] = dmaLeft'[ch] > 0]
             /\ UNCHANGED <<dmaClaim, dmaDst>>

\* History: one more word of strip s's transfer has reached the TX FIFO; ok
\* tells whether it is the word the frame holds at that position.  The count
\* saturates one past the largest frame.
Pushed(s, ok) ==
  /\ txCount' = [txCount EXCEPT ![s] = IF @ <= MaxCount THEN @ + 1 ELSE @]
  /\ txMatch' = [txMatch EXCEPT ![s] = @ /\ ok]

\* One iteration of the fallback loop; pio_sm_put_blocking waits for room.
PushLoop(pcDone) ==
  LET x == SmOf(cur)
  IN  IF pushIdx <= Len(frame)
        THEN /\ Len(txf[x]) < FifoDepth
             /\ txf' = [txf EXCEPT ![x] = Append(@, FallbackWord(frame, pushIdx))]
             /\ Pushed(cur, /\ txCount[cur] < Len(frame)
                             /\ FallbackWord(frame, pushIdx) = frame[txCount[cur] + 1])
             /\ pushIdx' = pushIdx + 1
             /\ UNCHANGED <<pc, sleepLeft>>
        ELSE /\ pc' = pcDone
             /\ sleepLeft' = IF pcDone = "show_sleep" THEN LatchTicks ELSE 0
             /\ UNCHANGED <<txf, txCount, txMatch, pushIdx>>

\* The local std::vector frame goes out of scope: whatever the strip's
\* channel was told to read from is no longer allocated.
FrameFreed(s) ==
  IF _dma_ch[s] >= 0 THEN [dmaLive EXCEPT ![_dma_ch[s]] = FALSE] ELSE dmaLive
\* Mutant: show() goes to sleep without waiting for the channel.
ShowPollSkipped(s) == TRUE
\* Mutant: the poll loop of show() spins while the channel is idle.
ShowPollInverted(s) == dma_channel_is_busy(_dma_ch[s])

\* "while (dma_channel_is_busy(_dma_ch)) tight_loop_contents();" has ended.
ShowPollDone(s) == ~dma_channel_is_busy(_dma_ch[s])
\* Mutant: wait() goes to sleep without waiting for the channel.
WaitPollSkipped(s) == TRUE

\* "while (dma_channel_is_busy(_dma_ch)) tight_loop_contents();" in wait().
WaitPollDone(s) == ~dma_channel_is_busy(_dma_ch[s])

\* show(), up to the point where it first blocks.
Show(s) ==
  /\ MayCall(s)
  /\ ready[s]
  /\ cur' = s
  /\ frame' = build_frame(s)
  /\ txCount' = [txCount EXCEPT ![s] = 0]
  /\ txMatch' = [txMatch EXCEPT ![s] = TRUE]
  /\ start_dma(s, frame', "show_push", "show_poll")
  /\ UNCHANGED <<sleepLeft, lastOp, ret, ready, rebegun, released, loads>>
  /\ UNCHANGED <<TxFrame, pioVars>>

ShowPush ==
  /\ pc = "show_push"
  /\ PushLoop("show_sleep")
  /\ UNCHANGED <<cur, frame, lastOp, ret, ready, rebegun, released, loads>>
  /\ UNCHANGED <<TxFrame, dmaVars>>
  /\ UNCHANGED <<instrFree, smClaim, smEnabled, smBits, osrLeft, idleTicks>>

ShowPoll ==
  /\ pc = "show_poll"
  /\ ShowPollDone(cur)
  /\ pc' = "show_sleep"
  /\ sleepLeft' = LatchTicks
  /\ UNCHANGED <<cur, frame, pushIdx, lastOp, ret>>
  /\ UNCHANGED <<TxFrame, pioVars, dmaVars, histVars>>

\* sleep_us(80) has elapsed; show() returns.
ShowSleepDone ==
  /\ pc = "show_sleep"
  /\ sleepLeft = 0
  /\ dmaLive' = FrameFreed(cur)
  /\ Return(cur, "show", FALSE)
  /\ UNCHANGED <<dmaClaim, dmaBusy, dmaLeft, dmaSrc, dmaDst>>
  /\ UNCHANGED <<TxFrame, pioVars, histVars>>

\* showAsync(), up to the point where it first blocks or returns.
ShowAsync(s) ==
  /\ MayCall(s)
  /\ ready[s]
  /\ cur' = s
  /\ frame' = build_frame(s)
  /\ txCount' = [txCount EXCEPT ![s] = 0]
  /\ txMatch' = [txMatch EXCEPT ![s] = TRUE]
  /\ start_dma(s, frame', "async_push", "async_ret")
  /\ UNCHANGED <<sleepLeft, lastOp, ret, ready, rebegun, released, loads>>
  /\ UNCHANGED <<TxFrame, pioVars>>

AsyncPush ==
  /\ pc = "async_push"
  /\ PushLoop("async_ret")
  /\ UNCHANGED <<cur, frame, lastOp, ret, ready, rebegun, released, loads>>
  /\ UNCHANGED <<TxFrame, dmaVars>>
  /\ UNCHANGED <<instrFree, smClaim, smEnabled, smBits, osrLeft, idleTicks>>

AsyncReturn ==
  /\ pc = "async_ret"
  /\ dmaLive' = FrameFreed(cur)
  /\ Return(cur, "showAsync", FALSE)
  /\ UNCHANGED <<dmaClaim, dmaBusy, dmaLeft, dmaSrc, dmaDst>>
  /\ UNCHANGED <<TxFrame, pioVars, histVars>>

\* busy()
busy(s) == IF _dma_ch[s] >= 0 THEN dma_channel_is_busy(_dma_ch[s]) ELSE FALSE

Busy(s) ==
  /\ MayCall(s)
  /\ Return(s, "busy", busy(s))
  /\ UNCHANGED <<stripVars, pioVars, dmaVars, histVars>>

\* wait()
Wait(s) ==
  /\ MayCall(s)
  /\ cur' = s
  /\ IF _dma_ch[s] >= 0
       THEN pc' = "wait_poll" /\ sleepLeft' = 0
       ELSE pc' = "wait_sleep" /\ sleepLeft' = LatchTicks
  /\ UNCHANGED <<frame, pushIdx, lastOp, ret>>
  /\ UNCHANGED <<stripVars, pioVars, dmaVars, histVars>>

WaitPoll ==
  /\ pc = "wait_poll"
  /\ WaitPollDone(cur)
  /\ pc' = "wait_sleep"
  /\ sleepLeft' = LatchTicks
  /\ UNCHANGED <<cur, frame, pushIdx, lastOp, ret>>
  /\ UNCHANGED <<stripVars, pioVars, dmaVars, histVars>>

WaitSleepDone ==
  /\ pc = "wait_sleep"
  /\ sleepLeft = 0
  /\ Return(cur, "wait", FALSE)
  /\ UNCHANGED <<stripVars, pioVars, dmaVars, histVars>>

\* ---------------------------------------------------------------- hardware
\* What a channel reads at its read address: the word stored there while
\* the memory is allocated, anything once it has been freed.
SourceWords(c) ==
  IF dmaSrc[c] = <<>> THEN Garbage
  ELSE IF dmaLive[c] THEN {Head(dmaSrc[c])}
  ELSE {Head(dmaSrc[c])} \cup Garbage

\* A channel paced by the TX FIFO's data request copies one word.
DmaRoom(c) == dmaBusy[c] /\ Len(txf[dmaDst[c]]) < FifoDepth

DmaXfer(c) ==
  /\ pc # "returned"
  /\ DmaRoom(c)
  /\ \E w \in SourceWords(c) :
       /\ txf' = [txf EXCEPT ![dmaDst[c]] = Append(@, w)]
       /\ Pushed(dmaClaim[c], dmaSrc[c] # <<>> /\ w = Head(dmaSrc[c]))
  /\ dmaSrc' = [dmaSrc EXCEPT ![c] = IF @ = <<>> THEN @ ELSE Tail(@)]
  /\ dmaLeft' = [dmaLeft EXCEPT ![c] = @ - 1]
  /\ dmaBusy' = [dmaBusy EXCEPT ![c] = dmaLeft[c] > 1]
  /\ UNCHANGED <<dmaClaim, dmaLive, dmaDst>>
  /\ UNCHANGED <<instrFree, smClaim, smEnabled, smBits, osrLeft, idleTicks>>
  /\ UNCHANGED <<stripVars, cpuVars, ready, rebegun, released, loads>>

\* An enabled state machine whose shift register is empty pulls a word.
PioReady(x) == smEnabled[x] /\ osrLeft[x] = 0 /\ txf[x] # <<>>

\* Ticks one word takes on the wire: its bits at 1.25 us each.
WordTicks(bits) == bits \div 8

PioPull(x) ==
  /\ pc # "returned"
  /\ PioReady(x)
  /\ txf' = [txf EXCEPT ![x] = Tail(@)]
  /\ osrLeft' = [osrLeft EXCEPT ![x] = WordTicks(smBits[x])]
  /\ idleTicks' = [idleTicks EXCEPT ![x] = 0]
  /\ UNCHANGED <<instrFree, smClaim, smEnabled, smBits>>
  /\ UNCHANGED <<stripVars, dmaVars, cpuVars, histVars>>

\* The CPU cannot go on without time passing: the caller is between two
\* calls, the program has halted, or the running call is blocked in a poll
\* loop, in sleep_us or in pio_sm_put_blocking.
CpuWaits ==
  \/ pc \in {"idle", "panic"}
  \/ pc = "show_poll" /\ ~ShowPollDone(cur)
  \/ pc = "wait_poll" /\ ~WaitPollDone(cur)
  \/ pc \in {"show_sleep", "wait_sleep"} /\ sleepLeft > 0
  \/ /\ pc \in {"show_push", "async_push"}
     /\ pushIdx <= Len(frame)
     /\ Len(txf[SmOf(cur)]) >= FifoDepth

\* 10 us pass: shifting goes on, idle lines stay idle, the sleep runs down.
Tick ==
  /\ CpuWaits
  /\ \A c \in Chans : ~DmaRoom(c)
  /\ \A x \in SmIds : ~PioReady(x)
  /\ osrLeft' = [x \in SmIds |->
                   IF smEnabled[x] /\ osrLeft[x] > 0 THEN osrLeft[x] - 1
                   ELSE osrLeft[x]]
  /\ idleTicks' = [x \in SmIds |->
                     IF osrLeft[x] = 0 /\ idleTicks[x] < LatchTicks
                       THEN idleTicks[x] + 1 ELSE idleTicks[x]]
  /\ sleepLeft' = IF sleepLeft > 0 THEN sleepLeft - 1 ELSE 0
  /\ UNCHANGED <<instrFree, smClaim, smEnabled, smBits, txf>>
  /\ UNCHANGED <<pc, cur, frame, pushIdx, lastOp, ret>>
  /\ UNCHANGED <<stripVars, dmaVars, histVars>>

\* ---------------------------------------------------------------- specification
Lifecycle ==
  \/ \E s \in Strips : Begin(s)
  \/ \E s \in Strips : End(s)
  \/ Resume

Painting ==
  \/ \E s \in Strips : Clear(s)
  \/ \E s \in Strips : SetAllRGB(s)
  \/ \E s \in Strips : SetAllRGBW(s)
  \/ \E s \in Strips : SetPixelRGB(s)
  \/ \E s \in Strips : SetPixelBytes(s)
  \/ \E s \in Strips : SetPixelRGBW(s)
  \/ \E s \in Strips : SetBrightness(s)
  \/ \E s \in Strips : EnableGamma(s)

Sending ==
  \/ \E s \in Strips : Show(s)
  \/ ShowPush
  \/ ShowPoll
  \/ ShowSleepDone
  \/ \E s \in Strips : ShowAsync(s)
  \/ AsyncPush
  \/ AsyncReturn
  \/ \E s \in Strips : Busy(s)
  \/ \E s \in Strips : Wait(s)
  \/ WaitPoll
  \/ WaitSleepDone

Hardware ==
  \/ \E c \in Chans : DmaXfer(c)
  \/ \E x \in SmIds : PioPull(x)
  \/ Tick

\* The whole interface on one strip, used by a patient caller.
Init == OneStrip(0 .. MaxPainted, BOOLEAN, TRUE)
Next == Lifecycle \/ Painting \/ Sending \/ Hardware
Spec == Init /\ [][Next]_vars

\* Transmission in time: longer strips, calls made at any moment; the caller
\* leaves the pixel buffer as begin() cleared it.
InitTx == OneStrip(0 .. MaxCount, BOOLEAN, FALSE)
NextTx == Lifecycle \/ Sending \/ Hardware
SpecTx == InitTx /\ [][NextTx]_vars

\* Resources: two strips on either block.  The application holds the n lowest
\* state machines of each block and may have handed one of them to strip "a";
\* the instruction memories have room for no, one or two copies of the
\* program; the DMA channel is free or taken.
InitRes ==
  /\ constructed = Strips
  /\ patient = FALSE
  /\ _pio \in [Strips -> Blocks]
  /\ _count = [s \in Strips |-> 1]
  /\ _rgbw = [s \in Strips |-> FALSE]
  /\ \E n \in 0 .. NSm :
       /\ smClaim = [x \in SmIds |-> IF x[2] < n THEN "app" ELSE "free"]
       /\ \E k \in (0 - 1) .. (n - 1) :
            _sm = [s \in Strips |-> IF s = "a" THEN k ELSE 0 - 1]
  /\ \E room \in 0 .. 2 : instrFree = [b \in Blocks |-> room]
  /\ \E o \in {"free", "app"} : dmaClaim = [c \in Chans |-> o]
  /\ InitCommon
NextRes == Lifecycle
SpecRes == InitRes /\ [][NextRes]_vars
\* Scheduling: a call that has started keeps executing, a triggered channel
\* copies whenever the FIFO asks for data, an enabled state machine pulls
\* whenever it is out of bits, and time passes.  The caller is under no
\* obligation to make another call.
Progress ==
  \/ ShowPush
  \/ ShowPoll
  \/ ShowSleepDone
  \/ AsyncPush
  \/ AsyncReturn
  \/ WaitPoll
  \/ WaitSleepDone
Fairness ==
  /\ WF_vars(Progress)
  /\ WF_vars(\E c \in Chans : DmaXfer(c))
  /\ WF_vars(\E x \in SmIds : PioPull(x))
  /\ WF_vars(Tick)
SpecLive == InitTx /\ [][NextTx]_vars /\ Fairness

\* The encoder on every input: one pixel, painted with colours that exercise
\* every byte lane, at the ends and the middle of the brightness range, with
\* and without gamma, in both wire formats; no DMA channel is left, so showAsync() pushes the frame itself.
EncRGBW == {RGBW(18, 52, 86, 0), RGBW(18, 52, 86, 120),
            RGBW(16, 32, 48, 64), RGBW(255, 255, 255, 255)}
EncLevels == {0, 1, 128, 254, 255}
InitEnc ==
  /\ OneStrip({1}, BOOLEAN, TRUE)
  /\ dmaClaim = [c \in Chans |-> "app"]
NextEnc ==
  \/ \E s \in Strips : Begin(s)
  \/ Resume
  \/ \E s \in Strips : SetPixelRGBWFrom(s, EncRGBW)
  \/ \E s \in Strips : SetBrightnessFrom(s, EncLevels)
  \/ \E s \in Strips : EnableGamma(s)
  \/ \E s \in Strips : ShowAsync(s)
  \/ AsyncPush
  \/ AsyncReturn
  \/ \E x \in SmIds : PioPull(x)
  \/ Tick
SpecEnc == InitEnc /\ [][NextEnc]_vars

\* Brightness scaling at every level: one 24-bit pixel, black or painted,
\* sent by the blocking loop after setBrightness(b) for any b.
InitScale ==
  /\ OneStrip({1}, {FALSE}, TRUE)
  /\ dmaClaim = [c \in Chans |-> "app"]
NextScale ==
  \/ \E s \in Strips : Begin(s)
  \/ Resume
  \/ \E s \in Strips : SetPixelRGBW(s)
  \/ \E s \in Strips : SetBrightnessFrom(s, Byte)
  \/ \E s \in Strips : ShowAsync(s)
  \/ AsyncPush
  \/ AsyncReturn
  \/ \E x \in SmIds : PioPull(x)
  \/ Tick
SpecScale == InitScale /\ [][NextScale]_vars

\* ================================================================ claims
\* The call on strip cur that has just returned.
Returned(op) == pc = "returned" /\ lastOp = op

\* C1: from the start of a channel transfer until the channel reports
\* completion, the words the channel reads are still allocated: no channel
\* is busy reading memory that has been freed.
C1_StagingOutlivesTransfer == \A c \in Chans : dmaBusy[c] => dmaLive[c]

\* C2: when show() returns the strip has latched the frame: the TX FIFO is
\* empty, the last word has been shifted out, and the line has been silent
\* for the reset latch since.
C2_ShowReturnsLatched ==
  Returned("show") =>
    /\ txf[SmOf(cur)] = <<>>
    /\ osrLeft[SmOf(cur)] = 0
    /\ idleTicks[SmOf(cur)] >= LatchTicks

\* C3: in show() and wait() the reset-latch sleep starts only after the
\* channel reports idle (channel path) or after the last word has been
\* pushed (fallback path), the channel stays idle while it runs, and the
\* call returns only when the sleep has run down.
C3_SleepAfterData ==
  /\ [](pc \in {"show_sleep", "wait_sleep"} /\ _dma_ch[cur] >= 0
          => ~dma_channel_is_busy(_dma_ch[cur]))
  /\ [](pc = "show_sleep" /\ _dma_ch[cur] < 0
          => pushIdx > Len(frame) /\ txCount[cur] >= Len(frame))
  /\ [][pc \notin {"show_sleep", "wait_sleep"}
          /\ pc' \in {"show_sleep", "wait_sleep"} => sleepLeft' = LatchTicks]_vars
  /\ [][pc' = "returned" /\ lastOp' \in {"show", "wait"}
          => pc \in {"show_sleep", "wait_sleep"} /\ sleepLeft = 0]_vars

\* show() has returned after a channel transfer that had to wait for the
\* FIFO to drain.
C3_Witness ==
  /\ Returned("show")
  /\ _dma_ch[cur] >= 0
  /\ _count[cur] > FifoDepth + 1
  /\ txCount[cur] = _count[cur]

\* C5: busy() is false at the moment wait() returns, with or without a
\* transfer channel, whatever show() / showAsync() calls came before.
C5_IdleAfterWait == Returned("wait") => ~busy(cur)

\* wait() has returned on a strip with a channel whose transfer had to wait
\* for the FIFO to drain and has delivered every word.
C5_Witness ==
  /\ Returned("wait")
  /\ _dma_ch[cur] >= 0
  /\ _count[cur] > FifoDepth + 1
  /\ txCount[cur] = _count[cur]

\* C6: end() directly after end() changes nothing: at the return of end(), a
\* second end() would release no channel and no slot and leave the instance
\* and the hardware as they are.
C6_EndTwice ==
  Returned("end") =>
    ENABLED (/\ EndBody(cur)
             /\ released' = {}
             /\ UNCHANGED <<stripVars, pioVars, dmaVars>>)

\* end() has returned after cutting a channel transfer short and releasing
\* both the channel and the slot.
C6_Witness ==
  /\ Returned("end")
  /\ released = {"channel", "slot"}
  /\ txCount[cur] > 0
  /\ txCount[cur] < _count[cur]

C4_BeginNeverAborts == pc # "panic"

\* C8: the timing program is loaded at most once into each block, and every
\* strip that has begun on a block uses the offset of that load.
C8_LoadedOnce ==
  /\ \A b \in Blocks : loads[b] <= 1
  /\ \A b \in Blocks : loads[b] = 0 <=> s_offset[b] < 0
  /\ \A s \in Strips : ready[s] => _pio_offset[s] = s_offset[_pio[s]]
  /\ \A s, u \in Strips :
       ready[s] /\ ready[u] /\ _pio[s] = _pio[u] => _pio_offset[s] = _pio_offset[u]

\* Both strips have begun on the same block, one of them after an end() and
\* a second begin().
C8_Witness ==
  /\ Returned("begin")
  /\ ret
  /\ _pio["a"] = _pio["b"]
  /\ ready["a"] /\ ready["b"]
  /\ rebegun[cur]
  /\ loads[_pio["a"]] = 1

\* C9: a missing transfer channel is not fatal.  begin() succeeds without a
\* channel, and show() and showAsync() on a strip without a channel return
\* only after every word of the frame was appended to the TX FIFO, in frame
\* order; show() on the channel path has put the same number of words.
C9_FallbackPushesAll ==
  /\ Returned("begin") /\ _sm[cur] >= 0 /\ _dma_ch[cur] < 0 => ret /\ ready[cur]
  /\ (Returned("show") \/ Returned("showAsync")) /\ _dma_ch[cur] < 0
       => txCount[cur] = _count[cur] /\ txMatch[cur]
  /\ Returned("show") /\ _dma_ch[cur] >= 0 => txCount[cur] = _count[cur]
  /\ pc \in {"show_push", "async_push"}
       => /\ _dma_ch[cur] < 0
          /\ txCount[cur] = pushIdx - 1
          /\ txMatch[cur]

\* showAsync() without a channel has returned for a strip whose frame has
\* more words than the FIFO holds and whose first two pixels differ.
C9_Witness ==
  /\ Returned("showAsync")
  /\ _dma_ch[cur] < 0
  /\ _count[cur] = MaxPainted
  /\ _count[cur] > FifoDepth + 1
  /\ _buf[cur][1] # _buf[cur][2]
  /\ txCount[cur] = _count[cur]

\* C10: a successful begin() leaves every pixel all-zero, the strip Ready,
\* the state machine's FIFO and shift register empty and no channel running.
C10_BeginClears ==
  Returned("begin") /\ ret
    => /\ \A i \in 1 .. _count[cur] : _buf[cur][i] = RGBW(0, 0, 0, 0)
       /\ Len(_buf[cur]) = _count[cur]
       /\ ready[cur]
       /\ _sm[cur] >= 0
       /\ txf[SmOf(cur)] = <<>>
       /\ osrLeft[SmOf(cur)] = 0
       /\ \A c \in Chans : ~dmaBusy[c]

\* begin() has succeeded on a strip that was begun, painted and shown before.
C10_Witness ==
  /\ Returned("begin")
  /\ ret
  /\ rebegun[cur]
  /\ _count[cur] = MaxPainted
  /\ txCount[cur] = _count[cur]
  /\ _gamma_on[cur]

\* The colour setAll(RGB{255,0,0}) stores in every slot.
Red == RGBW(255, 0, 0, 0)

\* C11: show() sends exactly count words, word i being the encoding of pixel
\* i at the current brightness and gamma settings, in buffer order.  While
\* show() runs its frame holds one such word per pixel, and at its return
\* count words have entered the TX FIFO, each the frame's word at its
\* position.  A strip of 3 pixels that are all RGB{255,0,0} encodes to 3
\* identical words with only the red byte set.
C11_ShowSendsFrame ==
  /\ pc \in {"show_push", "show_poll", "show_sleep"}
       => /\ Len(frame) = _count[cur]
          /\ \A i \in 1 .. _count[cur] : frame[i] = EncodePixel(cur, _buf[cur][i])
  /\ Returned("show") => txCount[cur] = _count[cur] /\ txMatch[cur]
  /\ \A s \in constructed :
       _count[s] = 3 /\ (\A i \in 1 .. 3 : _buf[s][i] = Red)
         => /\ Len(build_frame(s)) = 3
            /\ \A i \in 1 .. 3 : build_frame(s)[i] = <<Chan(s, 255), 0>>

\* show() has returned on a 3-pixel strip painted red, all 3 words sent.
C11_Witness ==
  /\ Returned("show")
  /\ _count[cur] = 3
  /\ \A i \in 1 .. 3 : _buf[cur][i] = Red
  /\ txCount[cur] = 3
  /\ txMatch[cur]

\* C12: on a 24-bit (RGB) strip every pixel encodes to (G'<<16 | R'<<8 | B') << 8,
\* with R', G', B' the channels after gamma and brightness: G' in bits 31:24,
\* R' in 23:16, B' in 15:8, bits 7:0 zero; the stored W does not matter; at
\* brightness 255 without gamma (0x12, 0x34, 0x56) encodes to 0x34125600; and
\* this is the word showAsync() pushes.
C12_RgbWord ==
  \A s \in constructed :
    ~_rgbw[s] =>
      /\ \A i \in 1 .. _count[s] :
           LET p == _buf[s][i]
               word == build_frame(s)[i]
           IN  /\ word = <<Chan(s, p.g) * 256 + Chan(s, p.r), Chan(s, p.b) * 256>>
               /\ word[2] % 256 = 0
               /\ \A w \in {0, 1, 120, 255} :
                    EncodePixel(s, [p EXCEPT !.w = w]) = word
               /\ (/\ _brightness[s] = 255 /\ ~_gamma_on[s]
                   /\ p.r = 18 /\ p.g = 52 /\ p.b = 86)
                    => word = <<13330, 22016>>
      /\ pc = "async_push" /\ cur = s => frame = build_frame(s)

\* showAsync() is pushing the frame of an RGB strip whose pixel is
\* (0x12, 0x34, 0x56) with a non-zero W stored, at brightness 255, gamma off.
C12_Witness ==
  /\ pc = "async_push"
  /\ ~_rgbw[cur]
  /\ _buf[cur][1] = RGBW(18, 52, 86, 120)
  /\ _brightness[cur] = 255
  /\ ~_gamma_on[cur]
  /\ frame = << <<13330, 22016>> >>

\* C13: on a 32-bit (RGBW) strip every pixel encodes to
\* G'<<24 | R'<<16 | B'<<8 | W' with no further shift; at brightness 255
\* without gamma (0x10, 0x20, 0x30, 0x40) encodes to 0x20103040; and this is
\* the word showAsync() pushes.
C13_RgbwWord ==
  \A s \in constructed :
    _rgbw[s] =>
      /\ \A i \in 1 .. _count[s] :
           LET p == _buf[s][i]
               word == build_frame(s)[i]
           IN  /\ word = <<Chan(s, p.g) * 256 + Chan(s, p.r),
                           Chan(s, p.b) * 256 + Chan(s, p.w)>>
               /\ (/\ _brightness[s] = 255 /\ ~_gamma_on[s]
                   /\ p = RGBW(16, 32, 48, 64))
                    => word = <<8208, 12352>>
      /\ pc = "async_push" /\ cur = s => frame = build_frame(s)

\* showAsync() is pushing the frame of an RGBW strip whose pixel is
\* (0x10, 0x20, 0x30, 0x40), at brightness 255, gamma off.
C13_Witness ==
  /\ pc = "async_push"
  /\ _rgbw[cur]
  /\ _buf[cur][1] = RGBW(16, 32, 48, 64)
  /\ _brightness[cur] = 255
  /\ ~_gamma_on[cur]
  /\ frame = << <<8208, 12352>> >>

\* C14: brightness and gamma act at encode time only.  The pixel buffer
\* changes only in begin(), clear(), setAll() and setPixel(): setBrightness(),
\* enableGamma(), show(), showAsync(), busy(), wait() and the hardware leave
\* every slot as it is.  With brightness 255 and gamma off the frame that
\* show() / showAsync() builds holds the stored bytes of every pixel.
C14_BufferUntouched ==
  /\ [][_buf' # _buf
          => /\ pc = "idle"
             /\ pc' = "returned"
             /\ lastOp' \in {"begin", "clear", "setAll", "setPixel"}]_vars
  /\ []((/\ pc \in {"show_push", "show_poll", "show_sleep", "async_push"}
         /\ _brightness[cur] = 255
         /\ ~_gamma_on[cur])
          => \A i \in 1 .. _count[cur] :
               LET p == _buf[cur][i]
               IN  frame[i] = <<p.g * 256 + p.r,
                                p.b * 256 + (IF _rgbw[cur] THEN p.w ELSE 0)>>)

\* setBrightness() has returned on a strip that still holds a painted pixel,
\* with gamma on, a dimmed brightness and a whole frame sent before.
C14_Witness ==
  /\ Returned("setBrightness")
  /\ _brightness[cur] = 128
  /\ _gamma_on[cur]
  /\ _count[cur] = MaxPainted
  /\ _buf[cur][1] = Red
  /\ txCount[cur] = _count[cur]

\* The colours the setPixel overloads can store: RGB arguments get W = 0.
Storable == PaintRGBW \cup {RGBW(c.r, c.g, c.b, 0) : c \in PaintRGB}

\* C15: the pixel buffer always has count slots.  setPixel with an index >=
\* count (count itself, and count + 1) stores nothing; with an index < count
\* it stores the colour in that slot and leaves every other slot alone; and a
\* call of setPixel changes at most one slot of its own strip and nothing of
\* another strip.
C15_SetPixelBounds ==
  /\ [](\A s \in Strips : DOMAIN _buf[s] = 1 .. _count[s])
  /\ [](\A s \in constructed : \A c \in Storable :
          \A i \in 0 .. (_count[s] + 1) :
            IF i >= _count[s]
              THEN WithPixel(s, i, c) = _buf[s]
              ELSE /\ DOMAIN WithPixel(s, i, c) = 1 .. _count[s]
                   /\ WithPixel(s, i, c)[i + 1] = c
                   /\ \A j \in (1 .. _count[s]) \ {i + 1} :
                        WithPixel(s, i, c)[j] = _buf[s][j])
  /\ [][pc' = "returned" /\ lastOp' = "setPixel"
          => /\ Cardinality({j \in 1 .. _count[cur'] :
                               _buf'[cur'][j] # _buf[cur'][j]}) <= 1
             /\ \A s \in Strips \ {cur'} : _buf'[s] = _buf[s]]_vars

\* setPixel() has returned on the longest strip with exactly the middle slot
\* painted.
C15_Witness ==
  /\ Returned("setPixel")
  /\ _count[cur] = MaxPainted
  /\ _buf[cur][2] = Red
  /\ \A j \in (1 .. _count[cur]) \ {2} : _buf[cur][j] = Black

\* C16: for every channel value v, scale_u8(v, 255) = v and scale_u8(v, 0) = 0,
\* and at every brightness (v*b + 127) / 255 fits in 8 bits, so the cast to
\* uint8_t drops nothing.  Seen on the wire: at brightness 255 without gamma
\* the pushed word holds the stored bytes, at brightness 0 it is zero.
C16_ScaleEnds ==
  \A s \in constructed :
    LET b == _brightness[s]
    IN  /\ b = 255 => \A v \in Byte : scale_u8(v, b) = v
        /\ b = 0 => \A v \in Byte : scale_u8(v, b) = 0
        /\ \A v \in Byte : /\ (v * b + 127) \div 255 \in Byte
                           /\ scale_u8(v, b) = (v * b + 127) \div 255
        /\ (pc = "async_push" /\ cur = s /\ b = 255 /\ ~_gamma_on[s])
             => LET p == _buf[s][1]
                IN  frame[1] = <<p.g * 256 + p.r,
                                 p.b * 256 + (IF _rgbw[s] THEN p.w ELSE 0)>>
        /\ (pc = "async_push" /\ cur = s /\ b = 0) => frame[1] = <<0, 0>>

\* showAsync() is pushing the frame of an all-255 pixel at brightness 0.
C16_Witness ==
  /\ pc = "async_push"
  /\ _brightness[cur] = 0
  /\ _buf[cur][1] = RGBW(255, 255, 255, 255)
  /\ frame = << <<0, 0>> >>

\* C17: for every channel value v, scale_u8(v, b) does not decrease when the
\* brightness grows: whenever a frame is built at brightness b1, every
\* b2 >= b1 gives scale_u8(v, b1) <= scale_u8(v, b2).
C17_ScaleMonotone ==
  (pc = "async_push" /\ pushIdx = 1)
    => \A v \in Byte : \A b2 \in _brightness[cur] .. 255 :
         scale_u8(v, _brightness[cur]) <= scale_u8(v, b2)

\* showAsync() has built the frame of pixel (16, 32, 48) at brightness 128.
C17_Witness ==
  /\ pc = "async_push"
  /\ pushIdx = 1
  /\ _brightness[cur] = 128
  /\ _buf[cur][1] = RGBW(16, 32, 48, 64)
  /\ frame = << <<4104, 6144>> >>

\* C18: every show() and every wait() on a Ready strip returns: a call that
\* is inside show() eventually reaches its return, and so does a call inside
\* wait(), for every pixel count from 0 up, with or without a channel.
C18_CallsReturn ==
  /\ (pc \in {"show_push", "show_poll", "show_sleep"}) ~> Returned("show")
  /\ (pc \in {"wait_poll", "wait_sleep"} /\ ready[cur]) ~> Returned("wait")

\* show() has returned on a strip of no pixels that owns a channel.
C18_Witness ==
  /\ Returned("show")
  /\ _count[cur] = 0
  /\ _dma_ch[cur] >= 0

\* The strip on the state machine of s has latched: nothing is left to shift
\* out and the line has been silent for the reset latch.
Latched(s) ==
  /\ txf[SmOf(s)] = <<>>
  /\ osrLeft[SmOf(s)] = 0
  /\ idleTicks[SmOf(s)] >= LatchTicks

\* C19: a caller that starts showAsync() only when busy() is false never
\* starts a frame inside the previous frame's reset-latch window: at every
\* call of showAsync() on a Ready strip made while busy() is false, the
\* previous frame has left the wire and the reset latch has passed.
C19_PollThenSend ==
  [][\A s \in Strips :
       (/\ pc = "idle"
        /\ pc' \in {"async_push", "async_ret"}
        /\ cur' = s
        /\ ~busy(s))
         => Latched(s)]_vars

\* C20: resources are balanced.  Whatever is claimed in the name of an
\* instance is what its members refer to (so it holds at most one channel and
\* one slot), after end() nothing is claimed in its name, and a slot claimed
\* by the application stays claimed by the application and is not disabled
\* by end().
C20_Balanced ==
  /\ [](\A s \in Strips :
          /\ \A c \in Chans : dmaClaim[c] = s => _dma_ch[s] = c
          /\ \A x \in SmIds : smClaim[x] = s => SmOf(s) = x)
  /\ [](Returned("end") =>
          /\ \A c \in Chans : dmaClaim[c] # cur
          /\ \A x \in SmIds : smClaim[x] # cur)
  /\ [][\A x \in SmIds :
          smClaim[x] = "app" =>
            /\ smClaim'[x] = "app"
            /\ (pc' = "returned" /\ lastOp' = "end" /\ smEnabled[x]) => smEnabled'[x]]_vars

====
